---- MODULE Spec2Model ----
\* The Flask web layer of the TB dashboard (src/app.py): the process-wide cache
\* (preprocessor, processed_data, visualizer, analyzer), initialize_data(), and
\* the request handlers, run by the worker threads of the threaded server.
\* A step of a worker is one access to a module global (a LOAD_GLOBAL or a
\* STORE_GLOBAL of CPython), together with the local computation before it.
EXTENDS Integers, Sequences, FiniteSets, TLC

\* ------------------------------------------------------------------ bounds
\* Number of DataPreprocessor objects (data loads) one run may construct.
MaxBuilds == 2
\* Longest query-string value of the parameters n / top_n.
MaxParamLen == 2

\* ------------------------------------------------------- program constants
\* request.args.get('top_n', 10, type=int)
DefaultTopN == 10
\* request.args.get('n', 10, type=int)
DefaultN == 10

\* Worker threads serving requests (app.run serves each request on a thread).
Threads == {"w1", "w2"}

\* Python's None for the four module globals; an object built from the k-th
\* data load is written k (k >= 1).
None == 0

VARIABLES
    preprocessor,    \* global: the DataPreprocessor, by the load it wraps
    processed_data,  \* global: the processed table, by the load it came from
    visualizer,      \* global: the Visualizer, by the table it was built from
    analyzer,        \* global: the Analyzer, by the table it was built from
    builds,          \* number of DataPreprocessor objects constructed so far
    pc,              \* per worker: where its handler stands
    route,           \* per worker: the view function it is running
    tmp,             \* per worker: the value of the global it has just loaded
    resp,            \* per worker: the response it returned
    history,         \* whether the three history variables below are kept
    made,            \* history: the table a refresh_data request produced
    saw,             \* history: a get_analysis request entered after lastRefresh
    lastRefresh      \* history: table of the last refresh that returned success

vars == <<preprocessor, processed_data, visualizer, analyzer, builds,
          pc, route, tmp, resp, history, made, saw, lastRefresh>>

Cache == <<preprocessor, processed_data, visualizer, analyzer>>

\* ------------------------------------------------------------------ routes
ChartTypes ==
    {"line", "bar", "pie", "correlation", "scatter", "boxplot", "region_boxplot"}

AnalysisTypes ==
    {"summary", "trends", "top_countries", "regional", "mdr_trend", "correlation"}

\* Path variables a client may send: the valid ones and some that are not.
ChartInputs == ChartTypes \cup {"bogus", "summary"}

AnalysisInputs == AnalysisTypes \cup {"bogus", "line"}

\* Handlers that call initialize_data() first.
DataRoutes ==
    {"dashboard", "visualizations", "get_visualization", "get_analysis",
     "data_preview", "export_report", "export_csv"}

\* ------------------------------------------------- query parameter parsing
Chars == {"-", "+", "0", "1", "a"}

Strings == UNION {[1..n -> Chars] : n \in 0..MaxParamLen}

\* A query parameter: absent, or present with some text.
Queries ==
    {[given |-> FALSE, text |-> <<>>]} \cup {[given |-> TRUE, text |-> s] : s \in Strings}

IsDigit(c) == c \in {"0", "1"}

DigitVal(c) == IF c = "1" THEN 1 ELSE 0

RECURSIVE DecVal(_)
DecVal(s) ==
    IF s = <<>> THEN 0
    ELSE DecVal(SubSeq(s, 1, Len(s) - 1)) * 10 + DigitVal(s[Len(s)])

\* int(text): an optional sign and at least one digit, else ValueError.
IntOf(s) ==
    LET signed == s # <<>> /\ s[1] \in {"+", "-"}
        body == IF signed THEN Tail(s) ELSE s
    IN  IF body # <<>> /\ \A i \in 1..Len(body) : IsDigit(body[i])
        THEN [ok |-> TRUE,
              val |-> IF signed /\ s[1] = "-" THEN 0 - DecVal(body) ELSE DecVal(body)]
        ELSE [ok |-> FALSE, val |-> 0]

\* request.args.get(key, default, type=int): the default when the key is
\* absent or its value does not convert.
ArgsGetInt(q, default) ==
    IF ~q.given THEN default
    ELSE IF IntOf(q.text).ok THEN IntOf(q.text).val ELSE default

\* --------------------------------------------------------------- responses
NoResp ==
    [status |-> 0, body |-> "none", msg |-> "", type |-> "", op |-> "none",
     result |-> "none", args |-> <<>>, given |-> FALSE]

Resp(status, body, msg) ==
    [NoResp EXCEPT !.status = status, !.body = body, !.msg = msg]


\* Mutant of InitFailedResponse: the handler ignores initialize_data()'s result
\* and answers as if the data were there.
InitFailedResponseIgnored(r, type) ==
    IF r \in {"dashboard", "visualizations"}
    THEN Resp(200, "page", "dashboard.html")
    ELSE [Resp(200, "json_success", "") EXCEPT !.type = type]

\* initialize_data() returned False: the handler's answer.
InitFailedResponse(r, type) ==
    IF r \in {"dashboard", "visualizations"}
    THEN Resp(200, "error_page", "Failed to load data")
    ELSE [Resp(500, "json_error", "Data not loaded") EXCEPT !.type = type]

\* refresh_data's except branch: {'error': str(e)}, 500.
RefreshFailedResponse(e) == Resp(500, "json_error", e)

ChartOp(c) ==
    CASE c = "line" -> "create_line_chart"
      [] c = "bar" -> "create_bar_chart"
      [] c = "pie" -> "create_pie_chart"
      [] c = "correlation" -> "create_correlation_matrix"
      [] c = "scatter" -> "create_scatter_plot"
      [] c = "boxplot" -> "create_boxplot"
      [] c = "region_boxplot" -> "create_region_boxplot"
      [] OTHER -> "none"

AnalysisOp(a) ==
    CASE a = "summary" -> "get_summary_statistics"
      [] a = "trends" -> "get_yearly_trends"
      [] a = "top_countries" -> "get_top_countries"
      [] a = "regional" -> "get_regional_summary"
      [] a = "mdr_trend" -> "get_mdr_trend"
      [] a = "correlation" -> "get_correlation_analysis"
      [] OTHER -> "none"

\* Mutant of VisResponse: no final else branch, an unknown chart type is
\* answered as if its chart were not available.
VisResponseNoElse(chart_type, top_n, vis, out) ==
    IF ChartOp(chart_type) = "none"
    THEN [Resp(404, "json_error", "Chart data not available") EXCEPT !.type = chart_type]
    ELSE LET called == vis # None
             result == IF called THEN out ELSE "raise"
             base == [NoResp EXCEPT
                        !.type = chart_type,
                        !.op = IF called THEN ChartOp(chart_type) ELSE "none",
                        !.result = result,
                        !.given = chart_type = "bar" /\ top_n.given,
                        !.args = IF called /\ chart_type = "bar"
                                 THEN <<top_n.n>> ELSE <<>>]
         IN  CASE result = "raise" ->
                    [base EXCEPT !.status = 500, !.body = "json_error", !.msg = "exception"]
               [] result = "null" ->
                    [base EXCEPT !.status = 404, !.body = "json_error",
                                 !.msg = "Chart data not available"]
               [] OTHER ->
                    [base EXCEPT !.status = 200, !.body = "json_success"]

\* Mutant of VisResponse: no "chart_json is None" test, a missing chart is
\* answered as a success.
VisResponseNoNullTest(chart_type, top_n, vis, out) ==
    IF ChartOp(chart_type) = "none"
    THEN [Resp(400, "json_error", "Invalid chart type") EXCEPT !.type = chart_type]
    ELSE LET called == vis # None
             result == IF called THEN out ELSE "raise"
             base == [NoResp EXCEPT
                        !.type = chart_type,
                        !.op = IF called THEN ChartOp(chart_type) ELSE "none",
                        !.result = result,
                        !.given = chart_type = "bar" /\ top_n.given,
                        !.args = IF called /\ chart_type = "bar"
                                 THEN <<top_n.n>> ELSE <<>>]
         IN  IF result = "raise"
             THEN [base EXCEPT !.status = 500, !.body = "json_error", !.msg = "exception"]
             ELSE [base EXCEPT !.status = 200, !.body = "json_success"]

\* The body of get_visualization after initialize_data(): chart_type the path
\* variable, top_n the parsed query parameter, vis the global visualizer as loaded,
\* out what the chart method does ("chart", "null" for None, "raise").
\* A None visualizer makes the attribute lookup raise before any call.
VisResponse(chart_type, top_n, vis, out) ==
    IF ChartOp(chart_type) = "none"
    THEN [Resp(400, "json_error", "Invalid chart type") EXCEPT !.type = chart_type]
    ELSE LET called == vis # None
             result == IF called THEN out ELSE "raise"
             base == [NoResp EXCEPT
                        !.type = chart_type,
                        !.op = IF called THEN ChartOp(chart_type) ELSE "none",
                        !.result = result,
                        !.given = chart_type = "bar" /\ top_n.given,
                        !.args = IF called /\ chart_type = "bar"
                                 THEN <<top_n.n>> ELSE <<>>]
         IN  CASE result = "raise" ->
                    [base EXCEPT !.status = 500, !.body = "json_error", !.msg = "exception"]
               [] result = "null" ->
                    [base EXCEPT !.status = 404, !.body = "json_error",
                                 !.msg = "Chart data not available"]
               [] OTHER ->
                    [base EXCEPT !.status = 200, !.body = "json_success"]

\* The body of get_analysis after initialize_data(): out is "data" or "raise".
AnalysisResponse(analysis_type, n, ana, out) ==
    IF AnalysisOp(analysis_type) = "none"
    THEN [Resp(400, "json_error", "Invalid analysis type") EXCEPT !.type = analysis_type]
    ELSE LET called == ana # None
             result == IF called THEN out ELSE "raise"
             base == [NoResp EXCEPT
                        !.type = analysis_type,
                        !.op = IF called THEN AnalysisOp(analysis_type) ELSE "none",
                        !.result = result,
                        !.given = analysis_type = "top_countries" /\ n.given,
                        !.args = IF called /\ analysis_type = "top_countries"
                                 THEN <<n.n>> ELSE <<>>]
         IN  IF result = "raise"
             THEN [base EXCEPT !.status = 500, !.body = "json_error", !.msg = "exception"]
             ELSE [base EXCEPT !.status = 200, !.body = "json_success"]

\* top_n = request.args.get('top_n', 10, type=int), for every query string:
\* whether the parameter was given, and the value the handler holds.
BarArgs ==
    {[given |-> q.given, n |-> ArgsGetInt(q, DefaultTopN)] : q \in Queries}

\* n = request.args.get('n', 10, type=int), for every query string.
TopCountriesArgs ==
    {[given |-> q.given, n |-> ArgsGetInt(q, DefaultN)] : q \in Queries}

\* Only the bar and top_countries branches read the query string.
NoArg == [given |-> FALSE, n |-> 0]

ArgInputs(type) ==
    IF type = "bar" THEN BarArgs
    ELSE IF type = "top_countries" THEN TopCountriesArgs
    ELSE {NoArg}

\* Path variables the request of a route may carry.
TypeInputs(r) ==
    IF r = "get_visualization" THEN ChartInputs
    ELSE IF r = "get_analysis" THEN AnalysisInputs
    ELSE {""}

\* ------------------------------------------------------------------- state
Initial ==
    /\ preprocessor = None
    /\ processed_data = None
    /\ visualizer = None
    /\ analyzer = None
    /\ builds = 0
    /\ pc = [t \in Threads |-> "idle"]
    /\ route = [t \in Threads |-> "none"]
    /\ tmp = [t \in Threads |-> None]
    /\ resp = [t \in Threads |-> NoResp]
    /\ made = [t \in Threads |-> None]
    /\ saw = [t \in Threads |-> FALSE]
    /\ lastRefresh = None

Init == Initial /\ history = FALSE

\* The same program, with the history of refreshes recorded.
InitHistory == Initial /\ history = TRUE

RefreshInFlight ==
    \E u \in Threads : route[u] = "refresh_data" /\ pc[u] # "done"

\* The handler of worker t returns response r.
Respond(t, r) ==
    /\ pc' = [pc EXCEPT ![t] = "done"]
    /\ resp' = [resp EXCEPT ![t] = r]
    /\ tmp' = [tmp EXCEPT ![t] = None]
    /\ saw' = [saw EXCEPT ![t] = FALSE]

\* Mutant of UseCached: the force flag read the wrong way round.
UseCachedInverted(force) == processed_data # None /\ force

\* "processed_data is not None and not force"
UseCached(force) == processed_data # None /\ ~force

\* GET /
index(t) ==
    /\ pc[t] = "idle"
    /\ route' = [route EXCEPT ![t] = "index"]
    /\ Respond(t, Resp(200, "page", "index.html"))
    /\ UNCHANGED <<Cache, builds, history, made, lastRefresh>>

\* A handler of a data route is entered and initialize_data() tests the cache.
\* The path variable and the query string are not read before the handler
\* answers; they are drawn there.
InitCheck(t) ==
    /\ pc[t] = "idle"
    /\ \E r \in DataRoutes :
         /\ route' = [route EXCEPT ![t] = r]
         /\ saw' = [saw EXCEPT ![t] =
                      history /\ r = "get_analysis" /\ ~RefreshInFlight
                              /\ lastRefresh # None]
    /\ pc' = [pc EXCEPT ![t] = IF UseCached(FALSE) THEN "dispatch" ELSE "load"]
    /\ UNCHANGED <<Cache, builds, history, tmp, resp, made, lastRefresh>>

\* GET /api/refresh-data is entered.
BeginRefresh(t) ==
    /\ pc[t] = "idle"
    /\ route' = [route EXCEPT ![t] = "refresh_data"]
    /\ pc' = [pc EXCEPT ![t] = "load"]
    /\ lastRefresh' = None
    /\ saw' = [u \in Threads |-> FALSE]
    /\ UNCHANGED <<Cache, builds, history, tmp, resp, made>>

\* An exception e inside the try block of initialize_data / refresh_data.
Raise(t, e) ==
    /\ \E type \in TypeInputs(route[t]) :
         Respond(t, IF route[t] = "refresh_data"
                    THEN RefreshFailedResponse(e)
                    ELSE InitFailedResponse(route[t], type))
    /\ made' = [made EXCEPT ![t] = None]
    /\ UNCHANGED <<Cache, builds, history, route, lastRefresh>>

\* ---------------------------------------------- the models the handlers call
\* DataLoader.load_data: the raw table, or DataUnavailable.
LoadOutcomes == {"ok", "raise"}

\* DataPreprocessor.preprocess: the processed table, or an error.
PreprocessOutcomes == {"ok", "raise"}

\* Visualizer(table), Analyzer(table): the object, or an exception (both calls
\* stand inside the try blocks of their callers).
ConstructorOutcomes == {"ok", "raise"}

\* A chart method of the Visualizer: a chart, None, or an exception.
ChartOutcomes == {"chart", "null", "raise"}

\* A query of the Analyzer, generate_report, or a read of the table: a result,
\* or an exception.
QueryOutcomes == {"data", "raise"}

\* ------------------------------------- the build: load, preprocess, construct
\* Mutant of LoadFails: the except branch drops the cached objects.
LoadFailsClearing(t) ==
    /\ "raise" \in LoadOutcomes
    /\ \E type \in TypeInputs(route[t]) :
         Respond(t, IF route[t] = "refresh_data"
                    THEN RefreshFailedResponse("DataUnavailable")
                    ELSE InitFailedResponse(route[t], type))
    /\ made' = [made EXCEPT ![t] = None]
    /\ processed_data' = None
    /\ visualizer' = None
    /\ analyzer' = None
    /\ UNCHANGED <<preprocessor, builds, route, history, lastRefresh>>

\* raw_data = data_loader.load_data(...) raises: nothing has been assigned.
LoadFails(t) ==
    /\ "raise" \in LoadOutcomes
    /\ Raise(t, "DataUnavailable")

\* raw_data = data_loader.load_data(...); preprocessor = DataPreprocessor(raw_data)
LoadOk(t) ==
    /\ "ok" \in LoadOutcomes
    /\ builds < MaxBuilds
    /\ builds' = builds + 1
    /\ preprocessor' = builds + 1
    /\ pc' = [pc EXCEPT ![t] = "preprocess"]
    /\ UNCHANGED <<processed_data, visualizer, analyzer, route, tmp, resp,
                   history, made, saw, lastRefresh>>

Load(t) ==
    /\ pc[t] = "load"
    /\ (LoadFails(t) \/ LoadOk(t))

\* processed_data = preprocessor.preprocess(): the global preprocessor is loaded
PreprocessCall(t) ==
    /\ pc[t] = "preprocess"
    /\ tmp' = [tmp EXCEPT ![t] = preprocessor]
    /\ pc' = [pc EXCEPT ![t] = "store_data"]
    /\ UNCHANGED <<Cache, builds, history, route, resp, made, saw, lastRefresh>>

\* ... and preprocess() raises, or its table is stored in processed_data.
PreprocessStore(t) ==
    /\ pc[t] = "store_data"
    /\ \/ /\ "raise" \in PreprocessOutcomes
          /\ Raise(t, "PreprocessError")
       \/ /\ "ok" \in PreprocessOutcomes
          /\ processed_data' = tmp[t]
          /\ made' = [made EXCEPT ![t] =
                        IF history /\ route[t] = "refresh_data" THEN tmp[t] ELSE None]
          /\ tmp' = [tmp EXCEPT ![t] = None]
          /\ pc' = [pc EXCEPT ![t] = "visualizer"]
          /\ UNCHANGED <<preprocessor, visualizer, analyzer, builds, route, resp,
                         history, saw, lastRefresh>>

\* visualizer = Visualizer(processed_data): the global processed_data is loaded
VisualizerCall(t) ==
    /\ pc[t] = "visualizer"
    /\ tmp' = [tmp EXCEPT ![t] = processed_data]
    /\ pc' = [pc EXCEPT ![t] = "store_visualizer"]
    /\ UNCHANGED <<Cache, builds, history, route, resp, made, saw, lastRefresh>>

\* ... and the constructor raises, or the Visualizer is stored.
VisualizerStore(t) ==
    /\ pc[t] = "store_visualizer"
    /\ \/ /\ "raise" \in ConstructorOutcomes
          /\ Raise(t, "VisualizerError")
       \/ /\ "ok" \in ConstructorOutcomes
          /\ visualizer' = tmp[t]
          /\ tmp' = [tmp EXCEPT ![t] = None]
          /\ pc' = [pc EXCEPT ![t] = "analyzer"]
          /\ UNCHANGED <<preprocessor, processed_data, analyzer, builds, route, resp,
                         history, made, saw, lastRefresh>>

\* analyzer = Analyzer(processed_data): the global processed_data is loaded
AnalyzerCall(t) ==
    /\ pc[t] = "analyzer"
    /\ tmp' = [tmp EXCEPT ![t] = processed_data]
    /\ pc' = [pc EXCEPT ![t] = "store_analyzer"]
    /\ UNCHANGED <<Cache, builds, history, route, resp, made, saw, lastRefresh>>

\* ... and the constructor raises, or the Analyzer is stored; initialize_data
\* then returns True, refresh_data returns its success response.
AnalyzerStore(t) ==
    /\ pc[t] = "store_analyzer"
    /\ \/ /\ "raise" \in ConstructorOutcomes
          /\ Raise(t, "AnalyzerError")
       \/ /\ "ok" \in ConstructorOutcomes
          /\ analyzer' = tmp[t]
          /\ UNCHANGED <<preprocessor, processed_data, visualizer, builds, route, history>>
          /\ made' = [made EXCEPT ![t] = None]
          /\ IF route[t] = "refresh_data"
             THEN /\ Respond(t, Resp(200, "json_success", "Data refreshed successfully"))
                  /\ lastRefresh' = made[t]
             ELSE /\ pc' = [pc EXCEPT ![t] = "dispatch"]
                  /\ tmp' = [tmp EXCEPT ![t] = None]
                  /\ UNCHANGED <<resp, saw, lastRefresh>>

\* ----------------------------------------- the handlers, after initialize_data
Frame == UNCHANGED <<Cache, builds, history, route, made, lastRefresh>>

\* An exception no handler catches: Flask's 500 handler renders error.html.
InternalError == Resp(500, "error_page", "Internal server error")

\* One of dashboard's three analyzer calls: the global analyzer is loaded and
\* the method called; it returns, or raises (as it does on a None analyzer).
DashboardCall(t, at, op, next) ==
    /\ pc[t] = at
    /\ route[t] = "dashboard"
    /\ Frame
    /\ \/ /\ "raise" \in QueryOutcomes \/ analyzer = None
          /\ Respond(t, [InternalError EXCEPT
                           !.op = IF analyzer # None THEN op ELSE "none",
                           !.result = "raise"])
       \/ /\ "data" \in QueryOutcomes
          /\ analyzer # None
          /\ IF next = "done"
             THEN Respond(t, [Resp(200, "page", "dashboard.html") EXCEPT
                                !.op = op, !.result = "data"])
             ELSE /\ pc' = [pc EXCEPT ![t] = next]
                  /\ UNCHANGED <<tmp, resp, saw>>

dashboard(t) ==
    \/ DashboardCall(t, "dispatch", "get_summary_statistics", "trends")
    \/ DashboardCall(t, "trends", "get_yearly_trends", "top_countries")
    \/ DashboardCall(t, "top_countries", "get_top_countries", "done")

visualizations(t) ==
    /\ pc[t] = "dispatch"
    /\ route[t] = "visualizations"
    /\ Frame
    /\ Respond(t, Resp(200, "page", "visualizations/index.html"))

get_visualization(t) ==
    /\ pc[t] = "dispatch"
    /\ route[t] = "get_visualization"
    /\ Frame
    /\ \E chart_type \in ChartInputs, out \in ChartOutcomes :
         \E top_n \in ArgInputs(chart_type) :
             Respond(t, VisResponse(chart_type, top_n, visualizer, out))

get_analysis(t) ==
    /\ pc[t] = "dispatch"
    /\ route[t] = "get_analysis"
    /\ Frame
    /\ \E analysis_type \in AnalysisInputs, out \in QueryOutcomes :
         \E n \in ArgInputs(analysis_type) :
             Respond(t, AnalysisResponse(analysis_type, n, analyzer, out))

\* What data_preview and the exports answer: their payload, or the except
\* branch's {'error': str(e)}, 500.
TableResponse(body, out) ==
    IF out = "data" THEN [Resp(200, body, "") EXCEPT !.result = "data"]
    ELSE [Resp(500, "json_error", "exception") EXCEPT !.result = "raise"]

data_preview(t) ==
    /\ pc[t] = "dispatch"
    /\ route[t] = "data_preview"
    /\ Frame
    /\ \E out \in QueryOutcomes : Respond(t, TableResponse("json_success", out))

export_report(t) ==
    /\ pc[t] = "dispatch"
    /\ route[t] = "export_report"
    /\ Frame
    /\ \E out \in QueryOutcomes :
         Respond(t, [TableResponse("file", IF visualizer # None THEN out ELSE "raise")
                       EXCEPT !.op = IF visualizer # None THEN "generate_report" ELSE "none"])

export_csv(t) ==
    /\ pc[t] = "dispatch"
    /\ route[t] = "export_csv"
    /\ Frame
    /\ \E out \in QueryOutcomes : Respond(t, TableResponse("file", out))

\* The response has been sent; the worker takes the next request.
Return(t) ==
    /\ pc[t] = "done"
    /\ pc' = [pc EXCEPT ![t] = "idle"]
    /\ route' = [route EXCEPT ![t] = "none"]
    /\ resp' = [resp EXCEPT ![t] = NoResp]
    /\ UNCHANGED <<Cache, builds, history, tmp, made, saw, lastRefresh>>

Next ==
    \E t \in Threads :
        \/ index(t)
        \/ InitCheck(t)
        \/ BeginRefresh(t)
        \/ Load(t)
        \/ PreprocessCall(t)
        \/ PreprocessStore(t)
        \/ VisualizerCall(t)
        \/ VisualizerStore(t)
        \/ AnalyzerCall(t)
        \/ AnalyzerStore(t)
        \/ dashboard(t)
        \/ visualizations(t)
        \/ get_visualization(t)
        \/ get_analysis(t)
        \/ data_preview(t)
        \/ export_report(t)
        \/ export_csv(t)
        \/ Return(t)

Spec == Init /\ [][Next]_vars

SpecHistory == InitHistory /\ [][Next]_vars

\* ------------------------------------------------------------------ claims
Done(t) == pc[t] = "done"

\* pc values inside the try block of initialize_data / refresh_data.
BuildPcs ==
    {"load", "preprocess", "store_data", "visualizer", "store_visualizer",
     "analyzer", "store_analyzer"}

\* pc values of a handler that initialize_data() answered True.
DispatchPcs == {"dispatch", "trends", "top_countries"}

\* C1: a refresh-data request made while a table is cached, whose forced load
\* fails, answers {error} with status 500, and neither its entry nor its failure
\* changes the cached preprocessor, table, visualizer or analyzer; the table is
\* not cleared.
C1_FailedRefreshKeepsCache ==
    [][\A t \in Threads :
         /\ (pc[t] = "idle" /\ route'[t] = "refresh_data") => Cache' = Cache
         /\ (route[t] = "refresh_data" /\ pc[t] = "load" /\ Done(t)'
               /\ processed_data # None)
              => /\ resp'[t].status = 500
                 /\ resp'[t].body = "json_error"
                 /\ Cache' = Cache
                 /\ processed_data' # None]_vars

C1_Witness ==
    \E t \in Threads :
        /\ Done(t)
        /\ route[t] = "refresh_data"
        /\ resp[t].msg = "DataUnavailable"
        /\ processed_data # None
        /\ visualizer = processed_data
        /\ analyzer = processed_data

\* C2: whenever a handler stands after initialize_data(), about to read the
\* cache, the table, the visualizer and the analyzer belong to the same table.
C2_AtomicReplacement ==
    \A t \in Threads :
        pc[t] \in DispatchPcs =>
            (visualizer = processed_data /\ analyzer = processed_data)

\* C3: a summary request entered after a refresh returned success, with no
\* refresh begun or running since, is answered by the analyzer built from the
\* table that refresh produced.
C3_SummaryAfterRefresh ==
    [][\A t \in Threads :
         (saw[t] /\ pc[t] = "dispatch" /\ Done(t)' /\ resp'[t].type = "summary")
            => analyzer = lastRefresh]_vars

\* C4: the table, once cached, is never absent again, and once it is cached no
\* request other than a forced refresh loads or preprocesses.
C4_BuiltOnce ==
    [][/\ processed_data # None => processed_data' # None
       /\ \A t \in Threads :
            (processed_data # None /\ route[t] \in DataRoutes)
               => /\ ~(pc[t] = "load" /\ pc'[t] # "load")
                  /\ ~(pc[t] = "preprocess" /\ pc'[t] # "preprocess")]_vars

\* C5 as stated: every visualization or analysis request with an unknown type
\* is answered 400 and calls nothing.
C5_UnknownTypeIs400 ==
    \A t \in Threads :
        (/\ Done(t)
         /\ \/ route[t] = "get_visualization" /\ resp[t].type \notin ChartTypes
            \/ route[t] = "get_analysis" /\ resp[t].type \notin AnalysisTypes)
           => (resp[t].status = 400 /\ resp[t].op = "none")

\* C5 amended: a visualization or analysis request with an unknown type calls
\* nothing; it is answered 400 when initialize_data() returned True, and 500
\* "Data not loaded" when initialize_data() returned False.
C5_UnknownTypeIs400WhenInitialized ==
    [][\A t \in Threads :
         (/\ ~Done(t) /\ Done(t)'
          /\ \/ route[t] = "get_visualization" /\ resp'[t].type \notin ChartTypes
             \/ route[t] = "get_analysis" /\ resp'[t].type \notin AnalysisTypes)
            => /\ resp'[t].op = "none"
               /\ resp'[t].body = "json_error"
               /\ IF pc[t] = "dispatch"
                  THEN resp'[t].status = 400
                  ELSE resp'[t].status = 500 /\ resp'[t].msg = "Data not loaded"]_vars

C5_Witness ==
    \E t \in Threads :
        /\ Done(t)
        /\ route[t] = "get_visualization"
        /\ resp[t].type = "bogus"
        /\ resp[t].status = 400

\* C6: in a handler of a data route, an exception inside initialize_data() ends
\* the request with the rendered error page or with JSON {error} and status 500;
\* no analyzer or visualizer operation is called and the answer is no success.
C6_InitFailureIsAnError ==
    [][\A t \in Threads :
         (route[t] \in DataRoutes /\ pc[t] \in BuildPcs /\ pc'[t] \notin BuildPcs)
            => \/ pc'[t] = "dispatch"
               \/ /\ Done(t)'
                  /\ resp'[t].op = "none"
                  /\ resp'[t].result = "none"
                  /\ \/ resp'[t].body = "error_page"
                     \/ resp'[t].body = "json_error" /\ resp'[t].status = 500]_vars

C6_Witness ==
    \E t \in Threads :
        /\ Done(t)
        /\ route[t] = "export_report"
        /\ resp[t].msg = "Data not loaded"
        /\ resp[t].status = 500

\* C7: the count handed to create_bar_chart / get_top_countries by the two API
\* handlers is an integer >= 1, and is 10 when the parameter is absent.
C7_CountIsPositive ==
    \A t \in Threads :
        (/\ Done(t)
         /\ route[t] \in {"get_visualization", "get_analysis"}
         /\ resp[t].op \in {"create_bar_chart", "get_top_countries"})
           => /\ Len(resp[t].args) = 1
              /\ resp[t].args[1] >= 1
              /\ ~resp[t].given => resp[t].args[1] = 10

\* C8: a visualization request with a valid chart type and initialized data is
\* answered success exactly when the visualizer gave a chart, 404 {error}
\* exactly when it gave None, and 500 {error} exactly when it raised.
C8_ChartOutcomes ==
    \A t \in Threads :
        (/\ Done(t)
         /\ route[t] = "get_visualization"
         /\ resp[t].type \in ChartTypes
         /\ resp[t].msg # "Data not loaded")
           => \/ /\ resp[t].result = "chart"
                 /\ resp[t].status = 200
                 /\ resp[t].body = "json_success"
              \/ /\ resp[t].result = "null"
                 /\ resp[t].status = 404
                 /\ resp[t].body = "json_error"
              \/ /\ resp[t].result = "raise"
                 /\ resp[t].status = 500
                 /\ resp[t].body = "json_error"

C8_Witness ==
    \E t \in Threads :
        /\ Done(t)
        /\ route[t] = "get_visualization"
        /\ resp[t].type = "pie"
        /\ resp[t].result = "null"
        /\ resp[t].status = 404

\* C9: whenever no request is running and a table is cached, the visualizer
\* and the analyzer exist and were built from that table.
C9_ReadyMeansComplete ==
    ((\A t \in Threads : pc[t] \in {"idle", "done"}) /\ processed_data # None)
        => (visualizer = processed_data /\ analyzer = processed_data)

\* C10: with a table cached, a handler other than refresh_data never changes
\* the four cached objects: its initialize_data() goes straight to the
\* dispatch, the build is entered only on a cache miss, and no step after
\* initialize_data() writes the cache.
C10_ReadersLeaveCache ==
    [][\A t \in Threads :
         /\ (pc[t] = "idle" /\ pc'[t] # "idle" /\ route'[t] # "refresh_data"
               /\ processed_data # None)
               => (pc'[t] \in {"dispatch", "done"} /\ Cache' = Cache)
         /\ (pc[t] \in DispatchPcs /\ pc'[t] # pc[t])
               => (pc'[t] \in DispatchPcs \cup {"done"} /\ Cache' = Cache)
         /\ (pc[t] = "done" /\ pc'[t] # pc[t]) => Cache' = Cache]_vars

C10_Witness ==
    \E t \in Threads :
        /\ Done(t)
        /\ route[t] = "export_csv"
        /\ resp[t].status = 200
        /\ processed_data # None

====
